---------------------------- MODULE Spec2Model ----------------------------
(***************************************************************************)
(* A model of roycemorebot: the configuration getter of constants.py       *)
(* (JSONGetter.__getattr__) and the process lifecycle of __main__.py       *)
(* (constants import, Bot.__init__, the extension load loop, bot.run,      *)
(* Bot.close).                                                             *)
(*                                                                         *)
(* Names (section, subsection, key and environment variable names, file    *)
(* names) are sequences of one-character strings, so that str.lower,       *)
(* str.upper, ".".join, endswith and startswith are computed character by  *)
(* character.                                                              *)
(***************************************************************************)
EXTENDS Naturals, Sequences, FiniteSets, TLC

VARIABLES
    files,      \* config.json and config-default.json as found on disk
    doc,        \* _CONFIG_JSON, the loaded document
    env,        \* os.environ: a function from variable name to value
    request,    \* the last attribute access: class section, subsection, name
    outcome,    \* what that access did: a return value or an exception
    pc,         \* the statement of __main__.py the process is at
    proc,       \* "running", "exited" (sys.exit), "crashed" (uncaught), "finished"
    cause,      \* the call whose exception ended the process, or "none"
    listing,    \* what os.listdir returned for roycemorebot/exts
    todo,       \* the entries of os.listdir the load loop has not reached yet
    loaded,     \* the extensions load_extension has loaded
    failed,     \* the extensions load_extension has raised for
    logs,       \* the records written through `log`
    storage,    \* the Tortoise connections: "none", "open", "closed"
    platform,   \* the gateway connection: "none", "open", "closed"
    connects,   \* the number of times bot.run opened the connection
    ready,      \* on_ready has sent its announcement
    dispatched, \* the number of commands dispatched to a handler
    steps,      \* Bot.close: each awaited call's progress
    closeIdx,   \* Bot.close: the position of the call being awaited, 0 before
    dbError,    \* the exception init_db raised, or "none"
    loadCalls,  \* the load loop's calls of bot.load_extension, in order
    hpc,        \* each command handler's position: idle, a step, or how it ended
    locals,     \* the handlers' local variables
    replies,    \* what each handler's current invocation has sent
    slept       \* seconds gone by in the asyncio.sleep of Bot.close and of restart

cfgVars == <<files, doc, env, request, outcome>>
hVars == <<hpc, locals, replies>>
lifeVars == <<pc, proc, cause, listing, todo, loaded, failed, logs, storage, platform,
              connects, ready, dispatched, steps, closeIdx, dbError, loadCalls,
              hpc, locals, replies, slept>>
vars == <<files, doc, env, request, outcome, pc, proc, cause, listing, todo, loaded,
          failed, logs, storage, platform, connects, ready, dispatched, steps,
          closeIdx, dbError, loadCalls, hpc, locals, replies, slept>>

(***************************************************************************)
(* Characters and names                                                    *)
(***************************************************************************)

\* str.lower() on the letters the model uses; other characters are unchanged.
ToLower == ("T" :> "t") @@ ("S" :> "s") @@ ("D" :> "d") @@ ("E" :> "e")
           @@ ("B" :> "b") @@ ("U" :> "u") @@ ("G" :> "g")

\* str.upper() on the letters the model uses; other characters are unchanged.
ToUpper == ("t" :> "T") @@ ("s" :> "S") @@ ("d" :> "D") @@ ("e" :> "E")
           @@ ("b" :> "B") @@ ("u" :> "U") @@ ("g" :> "G")

Lower(name) ==
    [i \in 1..Len(name) |->
        IF name[i] \in DOMAIN ToLower THEN ToLower[name[i]] ELSE name[i]]

Upper(name) ==
    [i \in 1..Len(name) |->
        IF name[i] \in DOMAIN ToUpper THEN ToUpper[name[i]] ELSE name[i]]

\* ".".join(parts)
RECURSIVE Join(_)
Join(parts) ==
    IF Len(parts) = 0 THEN <<>>
    ELSE IF Len(parts) = 1 THEN parts[1]
    ELSE parts[1] \o <<".">> \o Join(Tail(parts))

(***************************************************************************)
(* JSON values: a string scalar or a mapping from names to values          *)
(***************************************************************************)

Str(s) == [t |-> "str", v |-> s, m |-> <<>>]
Map(f) == [t |-> "map", v |-> "", m |-> f]

\* A file that does not exist.
Missing == [t |-> "missing", v |-> "", m |-> <<>>]

\* A loader that lays config.json over config-default.json section by section.
LoadConfigMerged(override, default) ==
    IF override.t # "missing" /\ default.t # "missing"
    THEN Map(override.m @@ default.m)
    ELSE IF override.t # "missing" THEN override ELSE default

\* The module-level load: config.json if Path("config.json").exists(), else
\* config-default.json; open() raises when that one is missing too, and no
\* document is loaded.
LoadConfig(override, default) ==
    IF override.t # "missing" THEN override ELSE default

\* The environment-override marker compared against in __getattr__.
ENV_MARKER == "!ENV"

\* cls.subsection = None
None == <<>>

\* x[k] in Python: a dict raises KeyError(k) for a missing key, a str raises
\* TypeError for a str index.
Index(x, k) ==
    IF x.t = "map"
    THEN IF k \in DOMAIN x.m
         THEN [exc |-> "none", val |-> x.m[k], key |-> <<>>]
         ELSE [exc |-> "KeyError", val |-> Str(""), key |-> k]
    ELSE [exc |-> "TypeError", val |-> Str(""), key |-> <<>>]

\* The lookup with the subsection branch dropped: always
\* _CONFIG_JSON[cls.section][name].
SubscriptNoSubsection(d, section, subsection, name) ==
    LET r1 == Index(d, section) IN
    IF r1.exc # "none" THEN r1 ELSE Index(r1.val, name)

\* _CONFIG_JSON[cls.section][cls.subsection][name], or
\* _CONFIG_JSON[cls.section][name] when cls.subsection is None; the first
\* subscript that raises ends the evaluation.
Subscript(d, section, subsection, name) ==
    LET r1 == Index(d, section) IN
    IF r1.exc # "none" THEN r1
    ELSE IF subsection # None
         THEN LET r2 == Index(r1.val, subsection) IN
              IF r2.exc # "none" THEN r2 ELSE Index(r2.val, name)
         ELSE Index(r1.val, name)

\* os.environ[name]
Environ(e, name) ==
    IF name \in DOMAIN e
    THEN [exc |-> "none", val |-> Str(e[name]), key |-> <<>>]
    ELSE [exc |-> "KeyError", val |-> Str(""), key |-> name]

\* The path the except clause logs.
DottedPath(section, subsection, name) ==
    IF subsection # None
    THEN Join(<<section, subsection, name>>)
    ELSE Join(<<section, name>>)

Returned(v, from) ==
    [kind |-> "return", val |-> v, from |-> from, key |-> <<>>, critical |-> <<>>]

\* `except KeyError:` logs the dotted path at CRITICAL and re-raises.
RaisedKeyError(key, path) ==
    [kind |-> "KeyError", val |-> Str(""), from |-> "", key |-> key, critical |-> path]

\* A TypeError is not caught by `except KeyError:`; nothing is logged.
RaisedTypeError ==
    [kind |-> "TypeError", val |-> Str(""), from |-> "", key |-> <<>>, critical |-> <<>>]

\* __getattr__ reading os.environ[name] without name.upper().
GetAttrNoLower(d, e, section, subsection, name) ==
    LET item == Subscript(d, section, subsection, name)
        path == DottedPath(section, subsection, name)
    IN  IF item.exc = "TypeError" THEN RaisedTypeError
        ELSE IF item.exc = "KeyError" THEN RaisedKeyError(item.key, path)
        ELSE IF item.val = Str(ENV_MARKER)
             THEN LET v == Environ(e, Upper(name)) IN
                  IF v.exc = "KeyError" THEN RaisedKeyError(v.key, path)
                  ELSE Returned(v.val, "environ")
             ELSE Returned(item.val, "item")

GetAttrEnvNotUpper(d, e, section, subsection, name0) ==
    LET name == Lower(name0)
        item == Subscript(d, section, subsection, name)
        path == DottedPath(section, subsection, name)
    IN  IF item.exc = "TypeError" THEN RaisedTypeError
        ELSE IF item.exc = "KeyError" THEN RaisedKeyError(item.key, path)
        ELSE IF item.val = Str(ENV_MARKER)
             THEN LET v == Environ(e, name) IN
                  IF v.exc = "KeyError" THEN RaisedKeyError(v.key, path)
                  ELSE Returned(v.val, "environ")
             ELSE Returned(item.val, "item")

\* JSONGetter.__getattr__(cls, name) for a class with cls.section and
\* cls.subsection, over document d and environment e.
GetAttr(d, e, section, subsection, name0) ==
    LET name == Lower(name0)
        item == Subscript(d, section, subsection, name)
        path == DottedPath(section, subsection, name)
    IN  IF item.exc = "TypeError" THEN RaisedTypeError
        ELSE IF item.exc = "KeyError" THEN RaisedKeyError(item.key, path)
        ELSE IF item.val = Str(ENV_MARKER)
             THEN LET v == Environ(e, Upper(name)) IN
                  IF v.exc = "KeyError" THEN RaisedKeyError(v.key, path)
                  ELSE Returned(v.val, "environ")
             ELSE Returned(item.val, "item")

(***************************************************************************)
(* Bot.close: the calls it awaits, in order                                *)
(***************************************************************************)

CloseCalls == {"super_close", "close_connections", "shutdown_asyncgens", "sleep"}

\* Bot.close with the storage close written before the platform disconnect.
CloseOrderStorageFirst ==
    <<"close_connections", "super_close", "shutdown_asyncgens", "sleep">>

\* The order of the awaits in Bot.close.
CloseOrder == <<"super_close", "close_connections", "shutdown_asyncgens", "sleep">>

(***************************************************************************)
(* Inputs of the configuration specification                               *)
(***************************************************************************)

\* Key names a document holds below its sections.
DocKeys == {<<"t", "_">>, <<"T", "_">>}

\* Section names a document holds.
DocSections == {<<"s">>}

\* Names a caller asks for.
AskSections == {<<"s">>, <<"b">>}
AskSubsections == {None, <<"t", "_">>, <<"T", "_">>}
AskNames == {<<"t", "_">>, <<"T", "_">>, <<"s">>}

\* Names the classes annotate: lower-case identifiers.
Annotations == {<<"t", "_">>, <<"s">>}

\* Scalars a document stores.
Scalars == {Str(ENV_MARKER), Str("v")}

\* Environment variables that may be set, and the values they may hold.
EnvNames == {<<"T", "_">>}
EnvValues == {"abc", ENV_MARKER}

MapsOver(keys, values) ==
    UNION {[D -> values] : D \in SUBSET keys}

\* A subsection: keys to scalars.
SubsectionValues == {Map(f) : f \in MapsOver(DocKeys, Scalars)}

\* A section: keys to scalars or subsections.
SectionValues == {Map(f) : f \in MapsOver(DocKeys, Scalars \cup SubsectionValues)}

\* A document: sections, each a mapping.
Documents == {Map(f) : f \in MapsOver(DocSections, SectionValues)}

\* What config-default.json may hold: a file with values of its own.
DefaultScalars == {Str("d")}
DefaultKeys == {<<"t", "_">>}
DefaultDocuments ==
    {Map(f) : f \in MapsOver(DocSections,
        {Map(g) : g \in MapsOver(DefaultKeys,
            DefaultScalars \cup {Map(<<"t", "_">> :> Str("d"))})})}

Environments == MapsOver(EnvNames, EnvValues)

NoRequest == [via |-> "", section |-> <<>>, subsection |-> None, name |-> <<>>]
NoOutcome == [kind |-> "none", val |-> Str(""), from |-> "", key |-> <<>>, critical |-> <<>>]

\* The commands with a handler in the sources.
Commands == {"reload", "git-pull", "restart"}

\* The first statement of each handler.
FirstStep ==
    [c \in Commands |->
        CASE c = "reload" -> "reload_extension"
          [] c = "git-pull" -> "subprocess_run"
          [] c = "restart" -> "checks"]

\* How a handler invocation can have ended: by returning, or with one of
\* these exceptions leaving the handler.
HandlerExceptions == {"SendError", "AttributeError", "ExtensionFailed", "KeyError",
                      "CheckFailure", "CloseError"}
NotInFlight == {"idle", "returned"} \cup HandlerExceptions

\* The handlers' locals before any invocation: reload's `cog`, git_pull's `e`
\* or `c`, restart's `delay`.
NoLocals == [cog |-> <<>>, reloaded |-> "pending",
             git |-> [exc |-> "pending", out |-> FALSE], delay |-> 0]

\* The two asyncio.sleep calls of the sources, none of them started.
NotSlept == [close |-> 0, restart |-> 0]

\* The process has not started: the lifecycle variables at rest.
LifeAtRest(entries) ==
    /\ pc = "import_constants"
    /\ proc = "running"
    /\ cause = "none"
    /\ listing = entries
    /\ todo = entries
    /\ loaded = {}
    /\ failed = {}
    /\ logs = {}
    /\ storage = "none"
    /\ platform = "none"
    /\ connects = 0
    /\ ready = FALSE
    /\ dispatched = 0
    /\ steps = [s \in CloseCalls |-> "pending"]
    /\ closeIdx = 0
    /\ dbError = "none"
    /\ loadCalls = <<>>
    /\ hpc = [c \in Commands |-> "idle"]
    /\ locals = NoLocals
    /\ replies = [c \in Commands |-> <<>>]
    /\ slept = NotSlept

InitConfig ==
    /\ files \in [override : Documents \cup {Missing},
                  default : DefaultDocuments \cup {Missing}]
    /\ doc = LoadConfig(files.override, files.default)
    /\ env \in Environments
    /\ request = NoRequest
    /\ outcome = NoOutcome
    /\ LifeAtRest(<<>>)

\* One attribute access on a constants class.
Access(section, subsection, name) ==
    /\ doc.t = "map"
    /\ request' = [via |-> "getattr", section |-> section, subsection |-> subsection,
                   name |-> name]
    /\ outcome' = GetAttr(doc, env, section, subsection, name)
    /\ UNCHANGED <<files, doc, env>>
    /\ UNCHANGED lifeVars

\* JSONGetter.__getitem__: cls[name] is cls.__getattr__(name).
GetItem(section, subsection, name) ==
    /\ doc.t = "map"
    /\ request' = [via |-> "getitem", section |-> section, subsection |-> subsection,
                   name |-> name]
    /\ outcome' = GetAttr(doc, env, section, subsection, name)
    /\ UNCHANGED <<files, doc, env>>
    /\ UNCHANGED lifeVars

\* JSONGetter.__iter__ reaching one name of cls.__annotations__: it yields
\* getattr(cls, name), which the class resolves through __getattr__.
IterNext(section, subsection, name) ==
    /\ doc.t = "map"
    /\ request' = [via |-> "iter", section |-> section, subsection |-> subsection,
                   name |-> name]
    /\ outcome' = GetAttr(doc, env, section, subsection, name)
    /\ UNCHANGED <<files, doc, env>>
    /\ UNCHANGED lifeVars

NextConfig ==
    \E section \in AskSections, subsection \in AskSubsections :
        \/ \E name \in AskNames : Access(section, subsection, name)
        \/ \E name \in AskNames : GetItem(section, subsection, name)
        \/ \E name \in Annotations : IterNext(section, subsection, name)

SpecConfig == InitConfig /\ [][NextConfig]_vars


(***************************************************************************)
(* Process lifecycle: __main__.py from its imports to the end of bot.run   *)
(***************************************************************************)

\* The most commands the dispatcher hands to handlers in one run.
MaxCommands == 2

\* The name of the variable constants.py reads for DEBUG_MODE.
DebugName == <<"D", "E", "B", "U", "G">>

\* Entries os.listdir may return for roycemorebot/exts.
StatusFile == <<"s", "t", "a", "t", "u", "s", ".", "p", "y">>
Files == {StatusFile, <<"o", ".", "p", "y">>, <<"_", ".", "p", "y">>,
          <<"n", ".", "m", "d">>}

\* Every order of every subset of Files: os.listdir promises no order.
RECURSIVE Listings(_)
Listings(S) ==
    {<<>>} \cup UNION {{<<f>> \o l : l \in Listings(S \ {f})} : f \in S}

\* str.endswith
EndsWith(s, suffix) ==
    /\ Len(s) >= Len(suffix)
    /\ SubSeq(s, Len(s) - Len(suffix) + 1, Len(s)) = suffix

\* str.startswith
StartsWith(s, prefix) ==
    /\ Len(s) >= Len(prefix)
    /\ SubSeq(s, 1, Len(prefix)) = prefix

\* The condition of the load loop.
IsExtensionFile(file) ==
    EndsWith(file, <<".", "p", "y">>) /\ ~StartsWith(file, <<"_">>)

\* f"roycemorebot.exts.{file[:-3]}"; the package prefix is kept as words.
ExtensionName(file) ==
    <<"roycemorebot", ".", "exts", ".">> \o SubSeq(file, 1, Len(file) - 3)

\* The names constants.py defines at module level.
ConstantsNames ==
    {"DEBUG_MODE", "Bot", "Guild", "StaffRoles", "ClassRoles", "Channels",
     "Categories", "Emoji", "BOT_ADMINS", "MOD_ROLES", "CLASS_ROLES",
     "JSONGetter", "json", "logging", "os", "Path", "log"}

\* The names exts/status.py imports from roycemorebot.constants.
StatusImports == {"Channels", "Emoji", "Roles"}

\* Whether importing the extension's module can succeed, and whether it can
\* fail. exts/status.py is the one extension whose source is known; any other
\* module may do either.
CanLoad(ext) ==
    IF ext = ExtensionName(StatusFile) THEN StatusImports \subseteq ConstantsNames
    ELSE TRUE

CanFailLoad(ext) ==
    IF ext = ExtensionName(StatusFile) THEN ~(StatusImports \subseteq ConstantsNames)
    ELSE TRUE

\* The qualified name of the cog an extension's setup() adds.
CogOf(ext) == <<"cog">> \o ext

LogRecord(level, msg, arg) == [level |-> level, msg |-> msg, arg |-> arg]

\* The exceptions init_db may raise, and those Bot.__init__ catches.
InitDbErrors == {"OSError", "ConfigurationError", "OperationalError"}
InitDbCaught == {"OSError", "ConfigurationError"}

\* The lifecycle state of the specification, read off the position of the
\* process.
State ==
    CASE pc \in {"import_constants", "init_db"} -> "Initializing"
      [] pc = "load_exts" -> "StorageReady"
      [] pc \in {"debug_log", "run"} -> "ExtensionsReady"
      [] pc = "connected" -> "Connected"
      [] pc = "close" -> "ShuttingDown"
      [] pc = "stopped" -> "Stopped"

\* An uncaught exception from `call` ends the process.
Crash(call) ==
    /\ proc' = "crashed"
    /\ cause' = call

\* `from roycemorebot.constants import ...`: DEBUG_MODE reads
\* os.environ["DEBUG"], which raises KeyError when the variable is not set.
ImportConstants ==
    /\ proc = "running" /\ pc = "import_constants"
    /\ IF Environ(env, DebugName).exc = "KeyError"
       THEN Crash("DEBUG") /\ pc' = pc
       ELSE pc' = "init_db" /\ UNCHANGED <<proc, cause>>
    /\ UNCHANGED <<cfgVars, slept, hVars, loadCalls, listing, todo, loaded, failed, logs, storage, platform,
                   connects, ready, dispatched, steps, closeIdx, dbError>>

\* Bot.__init__: init_db() completes.
InitDbOk ==
    /\ proc = "running" /\ pc = "init_db"
    /\ storage' = "open"
    /\ pc' = "load_exts"
    /\ UNCHANGED <<cfgVars, slept, hVars, loadCalls, listing, proc, cause, todo, loaded, failed, logs, platform,
                   connects, ready, dispatched, steps, closeIdx, dbError>>

\* Bot.__init__ without its sys.exit(): the error is logged and the module
\* goes on to the load loop.
InitDbFailContinue(error) ==
    /\ proc = "running" /\ pc = "init_db"
    /\ dbError' = error
    /\ logs' = logs \cup {LogRecord("error", "Error initialing database", <<>>)}
    /\ pc' = "load_exts"
    /\ UNCHANGED <<cfgVars, slept, hVars, loadCalls, listing, proc, cause, todo, loaded, failed, storage,
                   platform, connects, ready, dispatched, steps, closeIdx>>

\* Bot.__init__: init_db() raises `error`. A caught one is logged and the
\* process leaves through sys.exit(); any other propagates.
InitDbFail(error) ==
    /\ proc = "running" /\ pc = "init_db"
    /\ dbError' = error
    /\ IF error \in InitDbCaught
       THEN /\ logs' = logs \cup {LogRecord("error", "Error initialing database", <<>>)}
            /\ proc' = "exited"
            /\ cause' = "sys.exit"
       ELSE /\ Crash("init_db")
            /\ logs' = logs
    /\ UNCHANGED <<cfgVars, slept, hVars, loadCalls, listing, pc, todo, loaded, failed, storage, platform,
                   connects, ready, dispatched, steps, closeIdx>>

\* The load loop: an entry the condition rejects.
LoadSkip ==
    /\ proc = "running" /\ pc = "load_exts" /\ todo # <<>>
    /\ ~IsExtensionFile(Head(todo))
    /\ todo' = Tail(todo)
    /\ UNCHANGED <<cfgVars, slept, hVars, loadCalls, listing, pc, proc, cause, loaded, failed, logs, storage,
                   platform, connects, ready, dispatched, steps, closeIdx, dbError>>

\* The load loop: bot.load_extension succeeds; setup() calls add_cog, which
\* logs the cog.
LoadOk ==
    /\ proc = "running" /\ pc = "load_exts" /\ todo # <<>>
    /\ IsExtensionFile(Head(todo))
    /\ LET ext == ExtensionName(Head(todo)) IN
        /\ CanLoad(ext)
        /\ loadCalls' = Append(loadCalls, ext)
        /\ loaded' = loaded \cup {ext}
        /\ logs' = logs \cup {LogRecord("info", "Cog loaded", CogOf(ext))}
    /\ todo' = Tail(todo)
    /\ UNCHANGED <<cfgVars, slept, hVars, listing, pc, proc, cause, failed, storage, platform,
                   connects, ready, dispatched, steps, closeIdx, dbError>>

\* The load loop: bot.load_extension raises. Nothing around the loop catches
\* it: the exception leaves the module and the process ends.
LoadFail ==
    /\ proc = "running" /\ pc = "load_exts" /\ todo # <<>>
    /\ IsExtensionFile(Head(todo))
    /\ LET ext == ExtensionName(Head(todo)) IN
        /\ CanFailLoad(ext)
        /\ loadCalls' = Append(loadCalls, ext)
        /\ failed' = failed \cup {ext}
    /\ Crash("load_extension")
    /\ UNCHANGED <<cfgVars, slept, hVars, listing, pc, todo, loaded, logs, storage, platform,
                   connects, ready, dispatched, steps, closeIdx, dbError>>

\* The load loop left before os.listdir's entries are used up.
LoopDoneEarly ==
    /\ proc = "running" /\ pc = "load_exts"
    /\ pc' = "debug_log"
    /\ UNCHANGED <<cfgVars, slept, hVars, loadCalls, listing, proc, cause, todo, loaded, failed, logs, storage,
                   platform, connects, ready, dispatched, steps, closeIdx, dbError>>

\* The load loop ends when os.listdir's entries are used up.
LoopDone ==
    /\ proc = "running" /\ pc = "load_exts" /\ todo = <<>>
    /\ pc' = "debug_log"
    /\ UNCHANGED <<cfgVars, slept, hVars, loadCalls, listing, proc, cause, todo, loaded, failed, logs, storage,
                   platform, connects, ready, dispatched, steps, closeIdx, dbError>>

\* log.info(f"Debug: {DEBUG_MODE}"); log.trace(... os.environ['DEBUG'] ...)
DebugLog ==
    /\ proc = "running" /\ pc = "debug_log"
    /\ logs' = logs \cup {LogRecord("info", "Debug", <<>>)}
    /\ IF Environ(env, DebugName).exc = "KeyError"
       THEN Crash("DEBUG") /\ pc' = pc
       ELSE pc' = "run" /\ UNCHANGED <<proc, cause>>
    /\ UNCHANGED <<cfgVars, slept, hVars, loadCalls, listing, todo, loaded, failed, storage, platform,
                   connects, ready, dispatched, steps, closeIdx, dbError>>

\* bot.run(token) called again after it has returned.
RunOkAgain ==
    /\ proc \in {"running", "finished"} /\ pc \in {"run", "stopped"}
    /\ connects' = connects + 1
    /\ platform' = "open"
    /\ pc' = "connected"
    /\ proc' = "running"
    /\ UNCHANGED <<cfgVars, slept, hVars, loadCalls, listing, cause, todo, loaded, failed, logs, storage,
                   ready, dispatched, steps, closeIdx, dbError>>

\* bot.run(token): the connection opens.
RunOk ==
    /\ proc = "running" /\ pc = "run"
    /\ connects' = connects + 1
    /\ platform' = "open"
    /\ pc' = "connected"
    /\ UNCHANGED <<cfgVars, slept, hVars, loadCalls, listing, proc, cause, todo, loaded, failed, logs, storage,
                   ready, dispatched, steps, closeIdx, dbError>>

\* bot.run(token): the connection attempt fails; nothing retries and the
\* exception leaves the module.
RunFail ==
    /\ proc = "running" /\ pc = "run"
    /\ connects' = connects + 1
    /\ Crash("run")
    /\ UNCHANGED <<cfgVars, slept, hVars, loadCalls, listing, pc, todo, loaded, failed, logs, storage, platform,
                   ready, dispatched, steps, closeIdx, dbError>>

\* on_ready: logs the login and sends "Connected!" to the bot-log channel.
OnReady ==
    /\ proc = "running" /\ platform = "open" /\ ~ready
    /\ ready' = TRUE
    /\ logs' = logs \cup {LogRecord("info", "Logged in", <<>>)}
    /\ UNCHANGED <<cfgVars, slept, hVars, loadCalls, listing, pc, proc, cause, todo, loaded, failed, storage,
                   platform, connects, dispatched, steps, closeIdx, dbError>>

\* A command registered with @bot.command arrives as a platform event and is
\* handed to its handler with its argument; events arrive only over the open
\* connection. One invocation of a command is in flight at a time.
Dispatch(cmd, arg) ==
    /\ proc = "running" /\ platform = "open"
    /\ dispatched < MaxCommands
    /\ hpc[cmd] \in NotInFlight
    /\ cmd = "restart" => ExtensionName(StatusFile) \in loaded
    /\ dispatched' = dispatched + 1
    /\ hpc' = [hpc EXCEPT ![cmd] = FirstStep[cmd]]
    /\ replies' = [replies EXCEPT ![cmd] = <<>>]
    /\ locals' = CASE cmd = "reload" ->
                        [locals EXCEPT !.cog = arg, !.reloaded = "pending"]
                   [] cmd = "git-pull" -> [locals EXCEPT !.git = NoLocals.git]
                   [] cmd = "restart" -> [locals EXCEPT !.delay = arg]
    /\ UNCHANGED <<cfgVars, slept, loadCalls, listing, pc, proc, cause, todo, loaded, failed,
                   logs, storage, platform, connects, ready, steps, closeIdx, dbError>>

\* `await ctx.send(...)` by the handler of cmd: the message goes out over the
\* open connection and the handler goes on to `next`.
Send(cmd, msg, next) ==
    /\ proc = "running" /\ platform = "open"
    /\ replies' = [replies EXCEPT ![cmd] = Append(@, msg)]
    /\ hpc' = [hpc EXCEPT ![cmd] = next]

\* The handler positions that are an `await ...send(...)`.
SendSteps == {"send_error", "send_stderr", "send_success", "send_stdout",
              "send_not_found", "send_reloaded", "send_denied", "send_notice",
              "send_announcement"}

\* `await ctx.send(...)` once the connection is closed: the send raises and
\* the exception leaves the handler.
SendFail(cmd) ==
    /\ proc = "running" /\ platform = "closed"
    /\ hpc[cmd] \in SendSteps
    /\ hpc' = [hpc EXCEPT ![cmd] = "SendError"]
    /\ UNCHANGED <<cfgVars, slept, locals, replies, loadCalls, listing, pc, proc, cause, todo,
                   loaded, failed, logs, storage, platform, connects, ready,
                   dispatched, steps, closeIdx, dbError>>

(***************************************************************************)
(* git_pull                                                                *)
(***************************************************************************)

\* What subprocess.run(["git", "pull"], check=True, timeout=60) can do: return
\* (exc "none", out: stdout is not empty) or raise (out: e.stderr is not
\* empty; an OSError carries no stderr).
GitResults ==
    [exc : {"none", "TimeoutExpired", "CalledProcessError"}, out : BOOLEAN]
    \cup {[exc |-> "OSError", out |-> FALSE]}

\* Whether the exception object has a `stderr` attribute.
HasStderr(exc) == exc \in {"TimeoutExpired", "CalledProcessError"}

\* log.info, then the blocking subprocess.run; an exception of the three
\* caught classes is logged.
GitRun(result) ==
    /\ proc = "running" /\ hpc["git-pull"] = "subprocess_run"
    /\ locals' = [locals EXCEPT !.git = result]
    /\ logs' = logs \cup {LogRecord("info", "ran a git pull", <<>>)}
                    \cup (IF result.exc # "none"
                          THEN {LogRecord("info", "Command error!", <<>>)} ELSE {})
    /\ hpc' = [hpc EXCEPT !["git-pull"] =
                   IF result.exc # "none" THEN "send_error" ELSE "send_success"]
    /\ UNCHANGED <<cfgVars, slept, replies, loadCalls, listing, pc, proc, cause, todo, loaded,
                   failed, storage, platform, connects, ready, dispatched, steps,
                   closeIdx, dbError>>

\* except branch: the error message is sent; then log.trace(f"... {e.stderr}")
\* reads e.stderr, which raises AttributeError for an OSError; otherwise the
\* output is sent when e.stderr is not empty.
GitSendError ==
    /\ hpc["git-pull"] = "send_error"
    /\ Send("git-pull", "error",
            IF ~HasStderr(locals.git.exc) THEN "AttributeError"
            ELSE IF locals.git.out THEN "send_stderr" ELSE "returned")
    /\ UNCHANGED <<cfgVars, slept, locals, loadCalls, listing, pc, proc, cause, todo, loaded,
                   failed, logs, storage, platform, connects, ready, dispatched,
                   steps, closeIdx, dbError>>

\* else branch: the success message is sent; the output follows when
\* c.stdout is not empty.
GitSendSuccess ==
    /\ hpc["git-pull"] = "send_success"
    /\ Send("git-pull", "success",
            IF locals.git.out THEN "send_stdout" ELSE "returned")
    /\ UNCHANGED <<cfgVars, slept, locals, loadCalls, listing, pc, proc, cause, todo, loaded,
                   failed, logs, storage, platform, connects, ready, dispatched,
                   steps, closeIdx, dbError>>

\* "Command output: ..." with e.stderr or c.stdout; the handler returns.
GitSendOutput ==
    /\ hpc["git-pull"] \in {"send_stderr", "send_stdout"}
    /\ Send("git-pull", "output", "returned")
    /\ UNCHANGED <<cfgVars, slept, locals, loadCalls, listing, pc, proc, cause, todo, loaded,
                   failed, logs, storage, platform, connects, ready, dispatched,
                   steps, closeIdx, dbError>>

(***************************************************************************)
(* reload                                                                  *)
(***************************************************************************)

\* The `cog` arguments an operator gives: a bare name and a qualified name of
\* an extension file of the listing, and the name of no extension.
ReloadArgs ==
    {<<"o">>, <<"roycemorebot", ".", "exts", ".", "o">>, <<"n">>}

\* `cog if "roycemorebot" in cog else f"roycemorebot.exts.{cog}"`
ReloadTarget(cog) ==
    IF \E i \in 1..Len(cog) : cog[i] = "roycemorebot"
    THEN cog
    ELSE <<"roycemorebot", ".", "exts", ".">> \o cog

\* bot.reload_extension succeeds: the module is unloaded (remove_cog logs)
\* and loaded again (add_cog logs); the else branch is next.
ReloadOk ==
    /\ proc = "running" /\ hpc["reload"] = "reload_extension"
    /\ LET ext == ReloadTarget(locals.cog) IN
        /\ ext \in loaded
        /\ logs' = logs \cup {LogRecord("info", "Cog unloaded", CogOf(ext)),
                              LogRecord("info", "Cog loaded", CogOf(ext))}
    /\ locals' = [locals EXCEPT !.reloaded = "ok"]
    /\ hpc' = [hpc EXCEPT !["reload"] = "send_reloaded"]
    /\ UNCHANGED <<cfgVars, slept, replies, loadCalls, listing, pc, proc, cause, todo, loaded,
                   failed, storage, platform, connects, ready, dispatched, steps,
                   closeIdx, dbError>>

\* A reload of an extension that is not loaded answered as a success.
ReloadNotLoadedAsSuccess ==
    /\ proc = "running" /\ hpc["reload"] = "reload_extension"
    /\ ReloadTarget(locals.cog) \notin loaded
    /\ locals' = [locals EXCEPT !.reloaded = "ExtensionNotLoaded"]
    /\ hpc' = [hpc EXCEPT !["reload"] = "send_reloaded"]
    /\ UNCHANGED <<cfgVars, slept, replies, loadCalls, listing, pc, proc, cause, todo, loaded,
                   failed, logs, storage, platform, connects, ready, dispatched,
                   steps, closeIdx, dbError>>

\* bot.reload_extension raises ExtensionNotLoaded for a name that is not among
\* the loaded extensions; the except branch is next.
ReloadNotLoaded ==
    /\ proc = "running" /\ hpc["reload"] = "reload_extension"
    /\ ReloadTarget(locals.cog) \notin loaded
    /\ locals' = [locals EXCEPT !.reloaded = "ExtensionNotLoaded"]
    /\ hpc' = [hpc EXCEPT !["reload"] = "send_not_found"]
    /\ UNCHANGED <<cfgVars, slept, replies, loadCalls, listing, pc, proc, cause, todo, loaded,
                   failed, logs, storage, platform, connects, ready, dispatched,
                   steps, closeIdx, dbError>>

\* bot.reload_extension raises while loading the module again (the library
\* puts the previous module back, whose setup() adds the cog again). The
\* handler catches ExtensionNotLoaded only: the exception leaves the handler.
ReloadFail ==
    /\ proc = "running" /\ hpc["reload"] = "reload_extension"
    /\ LET ext == ReloadTarget(locals.cog) IN
        /\ ext \in loaded
        /\ CanFailLoad(ext)
        /\ logs' = logs \cup {LogRecord("info", "Cog unloaded", CogOf(ext)),
                              LogRecord("info", "Cog loaded", CogOf(ext))}
    /\ locals' = [locals EXCEPT !.reloaded = "ExtensionFailed"]
    /\ hpc' = [hpc EXCEPT !["reload"] = "ExtensionFailed"]
    /\ UNCHANGED <<cfgVars, slept, replies, loadCalls, listing, pc, proc, cause, todo, loaded,
                   failed, storage, platform, connects, ready, dispatched, steps,
                   closeIdx, dbError>>

\* except commands.ExtensionNotLoaded: "Could not find the extension ..."
ReloadSendNotFound ==
    /\ hpc["reload"] = "send_not_found"
    /\ Send("reload", "not found", "returned")
    /\ UNCHANGED <<cfgVars, slept, locals, loadCalls, listing, pc, proc, cause, todo, loaded,
                   failed, logs, storage, platform, connects, ready, dispatched,
                   steps, closeIdx, dbError>>

\* else: "Cog ... successfully reloaded!"
ReloadSendReloaded ==
    /\ hpc["reload"] = "send_reloaded"
    /\ Send("reload", "reloaded", "returned")
    /\ UNCHANGED <<cfgVars, slept, locals, loadCalls, listing, pc, proc, cause, todo, loaded,
                   failed, logs, storage, platform, connects, ready, dispatched,
                   steps, closeIdx, dbError>>

(***************************************************************************)
(* Status.restart                                                          *)
(***************************************************************************)

\* The longest delay an operator asks for.
MaxDelay == 3

\* The `delay` arguments: the default, one shorter and one longer than the
\* sleep of Bot.close.
Delays == {0, 1, MaxDelay}

\* The checks of @commands.guild_only() and @commands.has_any_role(...) pass:
\* the body of restart starts.
RestartChecksOk ==
    /\ proc = "running" /\ hpc["restart"] = "checks"
    /\ hpc' = [hpc EXCEPT !["restart"] = "check_delay"]
    /\ UNCHANGED <<cfgVars, locals, replies, slept, loadCalls, listing, pc, proc, cause, todo, loaded,
                   failed, logs, storage, platform, connects, ready, dispatched, steps,
                   closeIdx, dbError>>

\* A check fails with MissingAnyRole or NoPrivateMessage: the body is not
\* run and restart_error is to answer.
RestartChecksFail ==
    /\ proc = "running" /\ hpc["restart"] = "checks"
    /\ hpc' = [hpc EXCEPT !["restart"] = "send_denied"]
    /\ UNCHANGED <<cfgVars, locals, replies, slept, loadCalls, listing, pc, proc, cause, todo, loaded,
                   failed, logs, storage, platform, connects, ready, dispatched, steps,
                   closeIdx, dbError>>

\* restart_error: the refusal is sent; the invocation has ended with the
\* check's failure.
RestartSendDenied ==
    /\ hpc["restart"] = "send_denied"
    /\ Send("restart", "denied", "CheckFailure")
    /\ UNCHANGED <<cfgVars, locals, slept, loadCalls, listing, pc, proc, cause, todo, loaded,
                   failed, logs, storage, platform, connects, ready, dispatched, steps,
                   closeIdx, dbError>>

\* `if delay != 0:` the notice is next; otherwise asyncio.sleep(0) starts.
RestartCheckDelay ==
    /\ proc = "running" /\ hpc["restart"] = "check_delay"
    /\ hpc' = [hpc EXCEPT !["restart"] =
                   IF locals.delay # 0 THEN "send_notice" ELSE "sleep"]
    /\ slept' = [slept EXCEPT !.restart = 0]
    /\ UNCHANGED <<cfgVars, locals, replies, loadCalls, listing, pc, proc, cause, todo, loaded,
                   failed, logs, storage, platform, connects, ready, dispatched, steps,
                   closeIdx, dbError>>

\* "Restarting in {delay} seconds." has been sent; asyncio.sleep(delay) starts.
RestartSendNotice ==
    /\ hpc["restart"] = "send_notice"
    /\ Send("restart", "notice", "sleep")
    /\ slept' = [slept EXCEPT !.restart = 0]
    /\ UNCHANGED <<cfgVars, locals, loadCalls, listing, pc, proc, cause, todo, loaded,
                   failed, logs, storage, platform, connects, ready, dispatched, steps,
                   closeIdx, dbError>>

\* Emoji.ok, Channels.bot_log or Emoji.warning is not in the configuration:
\* the getter raises KeyError inside the handler.
RestartKeyError ==
    /\ proc = "running" /\ hpc["restart"] \in {"send_notice", "send_announcement"}
    /\ hpc' = [hpc EXCEPT !["restart"] = "KeyError"]
    /\ UNCHANGED <<cfgVars, locals, replies, slept, loadCalls, listing, pc, proc, cause, todo, loaded,
                   failed, logs, storage, platform, connects, ready, dispatched, steps,
                   closeIdx, dbError>>

\* asyncio.sleep(delay) returns after `delay` seconds; get_channel and the
\* announcement are next.
RestartWake ==
    /\ proc = "running" /\ hpc["restart"] = "sleep"
    /\ slept.restart = locals.delay
    /\ hpc' = [hpc EXCEPT !["restart"] = "send_announcement"]
    /\ UNCHANGED <<cfgVars, locals, replies, slept, loadCalls, listing, pc, proc, cause, todo, loaded,
                   failed, logs, storage, platform, connects, ready, dispatched, steps,
                   closeIdx, dbError>>

\* self.bot.get_channel(...) returns None for a channel the bot does not
\* see: `.send` on it raises AttributeError.
RestartNoChannel ==
    /\ proc = "running" /\ hpc["restart"] = "send_announcement"
    /\ hpc' = [hpc EXCEPT !["restart"] = "AttributeError"]
    /\ UNCHANGED <<cfgVars, locals, replies, slept, loadCalls, listing, pc, proc, cause, todo, loaded,
                   failed, logs, storage, platform, connects, ready, dispatched, steps,
                   closeIdx, dbError>>

\* restart going on to logout with no announcement sent.
RestartAnnounceSkipped ==
    /\ proc = "running" /\ platform = "open"
    /\ hpc["restart"] = "send_announcement"
    /\ hpc' = [hpc EXCEPT !["restart"] = "call_logout"]
    /\ UNCHANGED <<cfgVars, locals, replies, slept, loadCalls, listing, pc, proc, cause, todo, loaded,
                   failed, logs, storage, platform, connects, ready, dispatched, steps,
                   closeIdx, dbError>>

\* "Restarting!" has been sent to the bot-log channel.
RestartAnnounce ==
    /\ hpc["restart"] = "send_announcement"
    /\ Send("restart", "announcement", "call_logout")
    /\ UNCHANGED <<cfgVars, locals, slept, loadCalls, listing, pc, proc, cause, todo, loaded,
                   failed, logs, storage, platform, connects, ready, dispatched, steps,
                   closeIdx, dbError>>

\* log.info, then `await self.bot.logout()`: Bot.close is entered and awaits
\* its first call, unless a close is under way already, which the handler
\* then waits for.
RestartLogout ==
    /\ proc = "running" /\ hpc["restart"] = "call_logout"
    /\ pc \in {"connected", "close"}
    /\ logs' = logs \cup {LogRecord("info", "Restarting at the request of", <<>>)}
    /\ hpc' = [hpc EXCEPT !["restart"] = "logout"]
    /\ IF pc = "connected"
       THEN /\ pc' = "close"
            /\ closeIdx' = 1
            /\ steps' = [steps EXCEPT ![CloseOrder[1]] = "running"]
       ELSE UNCHANGED <<pc, closeIdx, steps>>
    /\ UNCHANGED <<cfgVars, locals, replies, slept, loadCalls, listing, proc, cause,
                   todo, loaded, failed, storage, platform, connects, ready,
                   dispatched, dbError>>

\* The seconds Bot.close sleeps before it returns.
GraceSeconds == 2

\* Whether the asyncio.sleep of Bot.close, or of restart, is running and has
\* time left.
Sleeping(who) ==
    IF who = "close"
    THEN pc = "close" /\ steps["sleep"] = "running" /\ slept.close < GraceSeconds
    ELSE hpc["restart"] = "sleep" /\ slept.restart < locals.delay

\* One second goes by for every asyncio.sleep that is running.
Tick ==
    /\ proc = "running"
    /\ Sleeping("close") \/ Sleeping("restart")
    /\ slept' = [who \in {"close", "restart"} |->
                    IF Sleeping(who) THEN slept[who] + 1 ELSE slept[who]]
    /\ UNCHANGED <<cfgVars, hVars, loadCalls, listing, pc, proc, cause, todo, loaded,
                   failed, logs, storage, platform, connects, ready, dispatched,
                   steps, closeIdx, dbError>>

\* What a call of Bot.close has done once it returns.
CloseEffect(call) ==
    /\ platform' = IF call = "super_close" THEN "closed" ELSE platform
    /\ storage' = IF call = "close_connections" THEN "closed" ELSE storage
    /\ logs' = IF call = "close_connections"
               THEN logs \cup {LogRecord("warning", "Please wait", <<>>)}
               ELSE logs

\* Bot.close is entered (bot.logout(), or bot.run's cleanup on a signal) and
\* awaits its first call.
CloseBegin ==
    /\ proc = "running" /\ pc = "connected"
    /\ pc' = "close"
    /\ closeIdx' = 1
    /\ steps' = [steps EXCEPT ![CloseOrder[1]] = "running"]
    /\ UNCHANGED <<cfgVars, slept, hVars, loadCalls, listing, proc, cause, todo, loaded, failed, logs, storage,
                   platform, connects, ready, dispatched, dbError>>

\* The awaited call returns: the next await starts, or close returns and with
\* it bot.run, the last statement of the module.
CloseStepOk ==
    /\ proc = "running" /\ pc = "close"
    /\ steps[CloseOrder[closeIdx]] = "running"
    /\ CloseOrder[closeIdx] = "sleep" => slept.close = GraceSeconds
    /\ CloseEffect(CloseOrder[closeIdx])
    /\ IF closeIdx < Len(CloseOrder)
       THEN /\ steps' = [steps EXCEPT ![CloseOrder[closeIdx]] = "done",
                                      ![CloseOrder[closeIdx + 1]] = "running"]
            /\ closeIdx' = closeIdx + 1
            /\ UNCHANGED <<pc, proc, hpc>>
       ELSE /\ steps' = [steps EXCEPT ![CloseOrder[closeIdx]] = "done"]
            /\ closeIdx' = closeIdx
            /\ pc' = "stopped"
            /\ proc' = "finished"
            /\ hpc' = [hpc EXCEPT !["restart"] = IF @ = "logout" THEN "returned" ELSE @]
    /\ UNCHANGED <<cfgVars, slept, locals, replies, loadCalls, listing, cause, todo,
                   loaded, failed, connects, ready, dispatched, dbError>>

\* The awaited call raises (the platform disconnect or the storage close):
\* nothing in Bot.close catches it, the rest of close is not run.
CloseStepFail ==
    /\ proc = "running" /\ pc = "close"
    /\ steps[CloseOrder[closeIdx]] = "running"
    /\ CloseOrder[closeIdx] \in {"super_close", "close_connections"}
    /\ steps' = [steps EXCEPT ![CloseOrder[closeIdx]] = "failed"]
    /\ hpc' = [hpc EXCEPT !["restart"] = IF @ = "logout" THEN "CloseError" ELSE @]
    /\ Crash("close")
    /\ UNCHANGED <<cfgVars, slept, locals, replies, loadCalls, listing, pc, todo, loaded,
                   failed, logs, storage, platform, connects, ready, dispatched,
                   closeIdx, dbError>>

\* The process before its first statement: the directory and whether DEBUG
\* is set are the inputs.
Init ==
    /\ files = [override |-> Missing, default |-> Map(<<>>)]
    /\ doc = LoadConfig(files.override, files.default)
    /\ env \in {<<>>, DebugName :> "1"}
    /\ request = NoRequest
    /\ outcome = NoOutcome
    /\ \E entries \in Listings(Files) : LifeAtRest(entries)

Next ==
    \/ ImportConstants
    \/ InitDbOk
    \/ \E error \in InitDbErrors : InitDbFail(error)
    \/ LoadSkip
    \/ LoadOk
    \/ LoadFail
    \/ LoopDone
    \/ DebugLog
    \/ RunOk
    \/ RunFail
    \/ OnReady
    \/ Dispatch("git-pull", <<>>)
    \/ SendFail("git-pull")
    \/ \E result \in GitResults : GitRun(result)
    \/ GitSendError
    \/ GitSendSuccess
    \/ GitSendOutput
    \/ \E cog \in ReloadArgs : Dispatch("reload", cog)
    \/ SendFail("reload")
    \/ ReloadOk
    \/ ReloadNotLoaded
    \/ ReloadFail
    \/ ReloadSendNotFound
    \/ ReloadSendReloaded
    \/ Tick
    \/ CloseBegin
    \/ CloseStepOk
    \/ CloseStepFail

Spec == Init /\ [][Next]_vars

\* The Status cog in service: the bot is connected and exts/status.py is the
\* extension that was loaded.
InitRestart ==
    /\ files = [override |-> Missing, default |-> Map(<<>>)]
    /\ doc = LoadConfig(files.override, files.default)
    /\ env = DebugName :> "1"
    /\ request = NoRequest
    /\ outcome = NoOutcome
    /\ pc = "connected"
    /\ proc = "running"
    /\ cause = "none"
    /\ listing = <<StatusFile>>
    /\ todo = <<>>
    /\ loadCalls = <<ExtensionName(StatusFile)>>
    /\ loaded = {ExtensionName(StatusFile)}
    /\ failed = {}
    /\ logs = {LogRecord("info", "Cog loaded", CogOf(ExtensionName(StatusFile)))}
    /\ storage = "open"
    /\ platform = "open"
    /\ connects = 1
    /\ ready \in BOOLEAN
    /\ dispatched = 0
    /\ steps = [s \in CloseCalls |-> "pending"]
    /\ closeIdx = 0
    /\ dbError = "none"
    /\ hpc = [c \in Commands |-> "idle"]
    /\ locals = NoLocals
    /\ replies = [c \in Commands |-> <<>>]
    /\ slept = NotSlept

NextRestart ==
    \/ \E delay \in Delays : Dispatch("restart", delay)
    \/ RestartChecksOk
    \/ RestartChecksFail
    \/ RestartSendDenied
    \/ RestartCheckDelay
    \/ RestartSendNotice
    \/ RestartKeyError
    \/ RestartWake
    \/ RestartNoChannel
    \/ RestartAnnounce
    \/ RestartLogout
    \/ SendFail("restart")
    \/ Tick
    \/ CloseBegin
    \/ CloseStepOk
    \/ CloseStepFail

SpecRestart == InitRestart /\ [][NextRestart]_vars

(***************************************************************************)
(* Properties of the lifecycle, checked under Spec                         *)
(***************************************************************************)

\* Bot.close has ended: it returned, or one of its awaits raised.
CloseEnded == pc = "stopped" \/ cause = "close"

\* C1: whenever a shutdown has begun and ended, the storage close was
\* attempted, also when the platform disconnect failed.
C1_StorageCloseAlwaysAttempted ==
    CloseEnded => steps["close_connections"] \in {"done", "failed"}

\* C2: the storage close starts only after the platform disconnect has
\* finished, the grace-period wait starts only after the storage close has
\* finished, and Stopped is reached only after the wait has completed.
C2_ShutdownOrder ==
    /\ steps["close_connections"] # "pending" =>
           steps["super_close"] = "done" /\ platform = "closed"
    /\ steps["sleep"] # "pending" =>
           steps["close_connections"] = "done" /\ storage = "closed"
    /\ State = "Stopped" => steps["sleep"] = "done"

\* A shutdown that ran all of its steps and reached Stopped.
C2_Witness ==
    /\ State = "Stopped"
    /\ \A c \in CloseCalls : steps[c] = "done"

\* The lifecycle's one-step transitions.
LifecycleEdges ==
    {<<"Initializing", "StorageReady">>, <<"StorageReady", "ExtensionsReady">>,
     <<"ExtensionsReady", "Connected">>, <<"Connected", "ShuttingDown">>,
     <<"ShuttingDown", "Stopped">>}

\* The extensions the load loop finds in a listing.
Discovered(entries) ==
    {ExtensionName(entries[i]) : i \in {j \in 1..Len(entries) : IsExtensionFile(entries[j])}}

C3_Order ==
    /\ (loaded \cup failed) # {} => storage # "none"
    /\ connects > 0 => Discovered(listing) \subseteq (loaded \cup failed)

C3_Step ==
    State' = State \/ <<State, State'>> \in LifecycleEdges

\* C3: the lifecycle state changes only along Initializing -> StorageReady ->
\* ExtensionsReady -> Connected -> ShuttingDown -> Stopped, one step at a
\* time; an extension is loaded only once storage is initialised, and the
\* connection is opened only once every discovered extension was attempted.
C3_Lifecycle == [](C3_Order) /\ [][C3_Step]_vars

\* A run that went through every state with an extension loaded.
C3_Witness == State = "Stopped" /\ loaded # {}

\* C4: a failed extension load is logged and does not end startup.
C4_LoadFailureNotFatal ==
    \A ext \in failed :
        /\ cause # "load_extension"
        /\ \E r \in logs : r.arg = ext

\* C5: when init_db raises, the process ends with no extension attempted and
\* no connection opened; for the errors Bot.__init__ names (OSError,
\* ConfigurationError) it ends through sys.exit after the error is logged.
C5_StorageFailureFatal ==
    dbError # "none" =>
        /\ proc \in {"exited", "crashed"}
        /\ loaded = {} /\ failed = {} /\ todo = listing
        /\ connects = 0 /\ platform = "none"
        /\ dbError \in InitDbCaught =>
               /\ proc = "exited"
               /\ LogRecord("error", "Error initialing database", <<>>) \in logs

\* init_db raised over a directory that holds an extension.
C5_Witness ==
    /\ dbError = "OSError" /\ proc = "exited"
    /\ Discovered(listing) # {}

\* C6: a command is dispatched only once the state is Connected or later, and
\* the connection is opened only from ExtensionsReady and only once, so never
\* after ShuttingDown has begun.
C6_DispatchAndConnect ==
    [][/\ dispatched' # dispatched => State \in {"Connected", "ShuttingDown", "Stopped"}
       /\ connects' # connects => State = "ExtensionsReady" /\ connects = 0]_vars

\* Commands were dispatched and the process shut down after one connection.
C6_Witness == dispatched > 0 /\ State = "Stopped" /\ connects = 1

(***************************************************************************)
(* Properties of the configuration getter, checked under SpecConfig        *)
(***************************************************************************)

\* An access has been made.
Accessed == outcome.kind # "none"

\* The values the document stores at a path: one value when the path is
\* present, none when a name on it is missing or names a scalar.
StoredIn(d, section, subsection, key) ==
    IF section \notin DOMAIN d.m THEN {}
    ELSE LET sec == d.m[section] IN
         IF sec.t # "map" THEN {}
         ELSE IF subsection = None
              THEN {sec.m[k] : k \in {key} \cap DOMAIN sec.m}
              ELSE UNION {IF sec.m[u].t = "map"
                          THEN {sec.m[u].m[k] : k \in {key} \cap DOMAIN sec.m[u].m}
                          ELSE {} : u \in {subsection} \cap DOMAIN sec.m}

StoredAt(section, subsection, key) == StoredIn(doc, section, subsection, key)

\* The requested path with the key as the getter looks it up (lower-cased),
\* and with the key exactly as requested.
StoredLowered == StoredAt(request.section, request.subsection, Lower(request.name))
StoredAsAsked == StoredAt(request.section, request.subsection, request.name)

\* The path the access asked for, key lower-cased.
AskedPath == DottedPath(request.section, request.subsection, Lower(request.name))

\* C7: an access to a path absent from the document raises the missing-key
\* error with the requested dotted path logged, and returns nothing. (The key
\* is taken lower-cased, as the getter looks it up.)
C7_AbsentPathFails ==
    (Accessed /\ StoredLowered = {}) =>
        /\ outcome.kind = "KeyError"
        /\ outcome.critical = AskedPath

\* C8: when the stored value is the marker and the environment variable is
\* not set, the failure is not reported as a missing configuration path.
C8_EnvMissDistinct ==
    (/\ Accessed
     /\ StoredLowered = {Str(ENV_MARKER)}
     /\ Upper(request.name) \notin DOMAIN env) =>
        outcome.critical = <<>>

\* C9 as stated: every path present in the document, whatever its key name,
\* with a stored value other than the marker, resolves to the stored value.
C9_PresentPathReturnsStored ==
    (/\ Accessed
     /\ StoredAsAsked # {} /\ StoredAsAsked # {Str(ENV_MARKER)}) =>
        /\ outcome.kind = "return"
        /\ outcome.val \in StoredAsAsked

\* C9 amended: when the path with the key lower-cased is present and its
\* stored value is not the marker, the access returns exactly that value.
C9_LoweredPathReturnsStored ==
    (/\ Accessed
     /\ StoredLowered # {} /\ StoredLowered # {Str(ENV_MARKER)}) =>
        \E v \in StoredLowered : outcome = Returned(v, "item")

\* A subsection-level key resolved to its stored scalar.
C9_Witness ==
    /\ Accessed /\ request.subsection # None
    /\ StoredLowered = {Str("v")}
    /\ outcome = Returned(Str("v"), "item")

\* C10: when the stored value is the marker and the variable named by the
\* upper-cased key is set, the access returns the variable's value, read from
\* the environment and not from the document.
C10_MarkerReturnsEnvironment ==
    (/\ Accessed
     /\ StoredLowered = {Str(ENV_MARKER)}
     /\ Upper(request.name) \in DOMAIN env) =>
        outcome = Returned(Str(env[Upper(request.name)]), "environ")

\* A subsection-level marker resolved to "abc" from the environment.
C10_Witness ==
    /\ Accessed /\ request.subsection # None
    /\ StoredLowered = {Str(ENV_MARKER)}
    /\ outcome = Returned(Str("abc"), "environ")

\* The requested path runs through a name that holds a scalar, not a mapping.
ThroughScalar(d, section, subsection) ==
    /\ subsection # None
    /\ section \in DOMAIN d.m
    /\ subsection \in DOMAIN d.m[section].m
    /\ d.m[section].m[subsection].t # "map"

GitFailures == {"TimeoutExpired", "CalledProcessError", "OSError"}

\* C12: whichever way the external command of git-pull failed (timeout,
\* non-zero exit, OS error), the handler raises nothing of its own, and when
\* it has finished its first response is the error report.
C12_GitPullFailuresReported ==
    locals.git.exc \in GitFailures =>
        /\ hpc["git-pull"] # "AttributeError"
        /\ hpc["git-pull"] = "returned" =>
            (replies["git-pull"] # <<>> /\ replies["git-pull"][1] = "error")

\* C13: an invocation of reload that has ended, by returning or by the
\* reload raising, has sent exactly one response, and that response is the
\* success text exactly when the reload succeeded.
C13_ReloadAnswersOnce ==
    hpc["reload"] \in {"returned", "ExtensionFailed"} =>
        /\ Len(replies["reload"]) = 1
        /\ replies["reload"][1] = "reloaded" <=> locals.reloaded = "ok"

\* The reload_extension call on a name that is not loaded.
C14_Step ==
    (/\ hpc["reload"] = "reload_extension"
     /\ ReloadTarget(locals.cog) \notin loaded
     /\ hpc'["reload"] # hpc["reload"]) =>
        /\ locals'.reloaded = "ExtensionNotLoaded"
        /\ loaded' = loaded
        /\ logs' = logs

\* What the handler does once ExtensionNotLoaded was raised.
C14_Answer ==
    locals.reloaded = "ExtensionNotLoaded" =>
        /\ ReloadTarget(locals.cog) \notin loaded
        /\ hpc["reload"] \in {"send_not_found", "returned", "SendError"}
        /\ \A i \in 1..Len(replies["reload"]) : replies["reload"][i] = "not found"
        /\ hpc["reload"] = "returned" => replies["reload"] = <<"not found">>

\* C14: a reload of an extension that is not loaded raises ExtensionNotLoaded
\* and changes neither the loaded extensions nor the cog log; the handler
\* then only sends the failure text and never the success text.
C14_ReloadOfUnloaded == [][C14_Step]_vars /\ []C14_Answer

\* A reload of a name that is not loaded, answered and returned.
C14_Witness ==
    /\ locals.reloaded = "ExtensionNotLoaded"
    /\ hpc["reload"] = "returned"
    /\ replies["reload"] = <<"not found">>

(***************************************************************************)
(* Shutdown with a command under way, the DEBUG flag, the cog log          *)
(***************************************************************************)

C16_StartupWithOrWithoutDebug ==
    ~(proc = "crashed" /\ cause = "DEBUG")

\* C17: every call of load_extension made by the load loop, whether it
\* succeeded or failed, has left a log entry naming the extension or its cog.
C17_EveryAttemptLogged ==
    \A i \in 1..Len(loadCalls) :
        \E r \in logs : r.arg = loadCalls[i] \/ r.arg = CogOf(loadCalls[i])

\* What restart has sent once the announcement is out: the notice first when
\* a delay was asked for.
RestartSent(delay) ==
    IF delay # 0 THEN <<"notice", "announcement">> ELSE <<"announcement">>

C18_Order ==
    LET sent == replies["restart"] IN
    /\ hpc["restart"] = "sleep" =>
        sent = (IF locals.delay # 0 THEN <<"notice">> ELSE <<>>)
    /\ (\E i \in 1..Len(sent) : sent[i] = "announcement") =>
        /\ slept.restart = locals.delay
        /\ sent = RestartSent(locals.delay)
    /\ hpc["restart"] \in {"call_logout", "logout", "returned", "CloseError"} =>
        sent = RestartSent(locals.delay)

C18_Step ==
    /\ (hpc'["restart"] = "logout" /\ hpc["restart"] # "logout") =>
        /\ hpc["restart"] = "call_logout"
        /\ replies["restart"] = RestartSent(locals.delay)
    /\ (/\ hpc["restart"] = "send_announcement"
        /\ hpc'["restart"] \in HandlerExceptions) =>
        /\ pc' = pc
        /\ steps' = steps
        /\ replies' = replies

C19_DiscoveryExact ==
    (pc \notin {"import_constants", "init_db", "load_exts"} \/ cause = "load_extension") =>
        /\ {loadCalls[i] : i \in 1..Len(loadCalls)} = Discovered(listing)
        /\ \A ext \in Discovered(listing) :
            Cardinality({i \in 1..Len(loadCalls) : loadCalls[i] = ext}) = 1

(***************************************************************************)
(* Case of the requested key                                               *)
(***************************************************************************)

\* Whether a name has an upper-case character.
HasUpper(name) == \E i \in 1..Len(name) : name[i] \in {"T", "S", "B"}

\* An access by a name that the document stores as asked and that has an
\* upper-case character.
AskedUpperStored == Accessed /\ HasUpper(request.name) /\ StoredAsAsked # {}

\* The environment variable of an access whose stored value is the marker.
MarkerVariable == Upper(Lower(request.name))

\* An access resolves as the access by the lower-cased name does, and a
\* marker is looked up in the environment under upper(lower(K)).
C20_LowerCased ==
    Accessed =>
        /\ outcome = GetAttr(doc, env, request.section, request.subsection,
                             Lower(request.name))
        /\ StoredLowered = {Str(ENV_MARKER)} =>
            IF MarkerVariable \in DOMAIN env
            THEN /\ outcome.kind = "return" /\ outcome.from = "environ"
                 /\ outcome.val = Str(env[MarkerVariable])
            ELSE outcome.kind = "KeyError" /\ outcome.key = MarkerVariable

\* C20 as stated: the access resolves as the one by the lower-cased name
\* does, a key stored with an upper-case character always ends in the
\* missing-key failure, and a marker is looked up under upper(lower(K)).
C20_UpperStoredAlwaysFails ==
    /\ C20_LowerCased
    /\ AskedUpperStored => outcome.kind = "KeyError"

\* C20: the access resolves as the one by the lower-cased name does, and a
\* marker is looked up under upper(lower(K)); an entry stored under a key
\* with an upper-case character is never the one read: the access ends in
\* the missing-key failure when nothing is stored under the lower-cased key,
\* and otherwise resolves the lower-cased key's entry.
C20_UpperStoredNeverRead ==
    /\ C20_LowerCased
    /\ AskedUpperStored =>
        /\ StoredLowered = {} => outcome.kind = "KeyError"
        /\ (outcome.kind = "return" /\ outcome.from = "item") =>
            outcome.val \in StoredLowered
        /\ outcome.kind = "return" => StoredLowered # {}

\* A key stored in both cases, with different values, asked for in upper
\* case through cls[name].
C20_Witness ==
    /\ AskedUpperStored
    /\ request.via = "getitem"
    /\ outcome.kind = "return" /\ outcome.from = "item"
    /\ outcome.val \notin StoredAsAsked

=============================================================================
